---- MODULE Spec2Model ----
(***************************************************************************)
(* Model of solar_system_tripled_rockies.py: the layout arithmetic, the    *)
(* canvas primitives (draw_circle, draw_annulus, paste_disc) and the       *)
(* asteroid-belt rejection sampling.                                       *)
(*                                                                         *)
(* Spec       the whole run, phase by phase, on the real 16384 x 8192      *)
(*            geometry.  The canvas of the run is carried as `drawn`, the  *)
(*            ordered list of paint calls issued so far.  The two belt     *)
(*            shifts are the run's configuration and are drawn in Init.    *)
(* SpecRaster the three canvas primitives applied pixel by pixel to a      *)
(*            CanvasW x CanvasH canvas, with numpy's slicing and           *)
(*            boolean-mask rules.                                          *)
(*                                                                         *)
(* Python floats are modelled as exact rationals <<n, d>> (d > 0); every   *)
(* value rounded in the script is far from a rounding boundary except      *)
(* 375 * 1.5 = 562.5, which is exact in binary and rounds half-to-even.    *)
(***************************************************************************)
EXTENDS Integers, Sequences, FiniteSets, TLC

VARIABLES
    pc,                 \* position of the script: the phase about to run
    err,                \* "none", or the exception that ended the run
    BELT_LEFT_SHIFT,    \* line 40 (configuration)
    BELT_RIGHT_SHIFT,   \* line 41 (configuration)
    radius_base,        \* line 59-60
    centre_x_base,      \* line 71-85
    centre_x,           \* line 89-91
    radius_px,          \* line 94-96
    moons_done,         \* moons placed so far by the loop of line 211-223
    belt_left,          \* line 231-234
    belt_right,
    asteroids,          \* line 237
    dwarf_ring_extents, \* line 241
    di,                 \* index into dwarf_defs of the for loop of line 242
    placed,             \* line 244
    tries,              \* line 245
    drawn,              \* the run's canvas, as the list of paint calls
    saves,              \* number of times the raster was written (line 281)
    canvas,             \* SpecRaster: the pixel array
    prev,               \* SpecRaster: the pixel array before the last call
    call,               \* SpecRaster: the last call and its arguments
    raised,             \* SpecRaster: whether the last call raised
    stage               \* SpecRaster: "earlier", "call" or "after"

runVars == <<pc, err, BELT_LEFT_SHIFT, BELT_RIGHT_SHIFT, radius_base,
             centre_x_base, centre_x, radius_px, moons_done, belt_left,
             belt_right, asteroids, dwarf_ring_extents, di, placed, tries,
             drawn, saves>>
rasterVars == <<canvas, prev, call, raised, stage>>
vars == <<runVars, rasterVars>>

(***************************************************************************)
(* PARAMETERS (lines 23-41)                                                *)
(***************************************************************************)
WIDTH == 16384
HEIGHT == 8192
GRAY_PLANET == 45000
GRAY_ORBIT_RING == 30000
GRAY_SAT_RING == 60000
GRAY_ASTEROID == 35000
LEFT_MARGIN == 100
RIGHT_MARGIN == 100
EARTH_PX == 150
MIN_GAP_MARS_JUP == 1100
LOW_OFF == 24
LOW_THICK == 6
HIGH_GAP == 30
HIGH_THICK == 6
MOON_RING_OFF == 6
MOON_RING_THICK == 4
SHIFT_MERCURY == 250
SHIFT_JUPITER == 1500

PLANET_KM ==
    [Mercury |-> 2440, Venus |-> 6052, Earth |-> 6371, Mars |-> 3390,
     Jupiter |-> 69911, Saturn |-> 58232, Uranus |-> 25362, Neptune |-> 24622,
     Pluto |-> 1188]
\* iteration order of the dict PLANET_KM
PlanetOrder ==
    <<"Mercury", "Venus", "Earth", "Mars", "Jupiter", "Saturn", "Uranus",
      "Neptune", "Pluto">>
Planets == DOMAIN PLANET_KM
GAS == {"Jupiter", "Saturn", "Uranus", "Neptune"}
SATURN == "Saturn"
ROCKY == {"Mercury", "Venus", "Earth", "Mars", "Pluto"}
INNER == <<"Mercury", "Venus", "Earth", "Mars">>

(***************************************************************************)
(* Python arithmetic on exact rationals                                    *)
(***************************************************************************)
RECURSIVE Gcd(_, _)
Gcd(a, b) == IF b = 0 THEN a ELSE Gcd(b, a % b)

Abs(x) == IF x < 0 THEN -x ELSE x
Max(a, b) == IF a >= b THEN a ELSE b
Min(a, b) == IF a <= b THEN a ELSE b

Rat(n) == <<n, 1>>
RatNorm(q) ==
    LET g == Gcd(Abs(q[1]), q[2]) IN
    IF g = 0 THEN q ELSE <<q[1] \div g, q[2] \div g>>
\* a * b, cross-reduced first so that the products stay small
RatMul(a, b) ==
    LET g1 == Gcd(Abs(a[1]), b[2])
        g2 == Gcd(Abs(b[1]), a[2])
        h1 == IF g1 = 0 THEN 1 ELSE g1
        h2 == IF g2 = 0 THEN 1 ELSE g2
    IN  <<(a[1] \div h1) * (b[1] \div h2), (a[2] \div h2) * (b[2] \div h1)>>
\* a / b for b > 0
RatDiv(a, b) == RatMul(a, <<b[2], b[1]>>)
RatLess(a, b) == a[1] * b[2] < b[1] * a[2]
RatMin(a, b) == IF RatLess(b, a) THEN b ELSE a

\* int(round(k + q)): Python 3 round() is round-half-to-even
PyRoundPlus(k, q) ==
    LET w == k + (q[1] \div q[2])
        r == q[1] % q[2]
    IN  IF 2 * r < q[2] THEN w
        ELSE IF 2 * r > q[2] THEN w + 1
        ELSE IF w % 2 = 0 THEN w ELSE w + 1
PyRound(q) == PyRoundPlus(0, q)
\* int(q): truncation towards zero
PyInt(q) == IF q[1] >= 0 THEN q[1] \div q[2] ELSE -((-q[1]) \div q[2])

(***************************************************************************)
(* BASE SCALE (lines 56-60)                                                *)
(***************************************************************************)
scale == <<EARTH_PX, PLANET_KM["Earth"]>>
raw_px(p) == RatNorm(RatMul(Rat(PLANET_KM[p]), scale))
shrink == RatMin(Rat(1), RatDiv(Rat(3 * EARTH_PX), raw_px("Jupiter")))
radius_base_of(p) ==
    IF p = "Earth" THEN EARTH_PX
    ELSE PyRound(RatMul(raw_px(p), IF p \in GAS THEN shrink ELSE Rat(1)))

low_outer_from_r(r) == r + LOW_OFF + LOW_THICK

\* ring extents from a radius table rt (lines 65-68 with radius_base,
\* lines 99-102 with radius_px); Saturn has no high ring (None)
RingLowOuter(rt, p) ==
    IF p = SATURN THEN PyRound(<<rt[p] * 3, 2>>) ELSE low_outer_from_r(rt[p])
RingHighInner(rt, p) == RingLowOuter(rt, p) + HIGH_GAP
RingHighOuter(rt, p) == RingHighInner(rt, p) + HIGH_THICK
ring_low_outer_base(p) == RingLowOuter(radius_base, p)
ring_high_outer_base(p) == RingHighOuter(radius_base, p)
ring_low_outer(p) == RingLowOuter(radius_px, p)
ring_high_inner(p) == RingHighInner(radius_px, p)
ring_high_outer(p) == RingHighOuter(radius_px, p)

(***************************************************************************)
(* POSITIONS (lines 71-91)                                                 *)
(***************************************************************************)
inner_right == PyInt(<<WIDTH * 3, 10>>)
PositionsBase ==
    LET mercury == LEFT_MARGIN + radius_base["Mercury"]
        inner_spacing == <<inner_right - mercury - radius_base["Mars"],
                           Len(INNER) - 1>>
        inner(i) == PyRoundPlus(mercury, RatMul(Rat(i), inner_spacing))
        jupiter == (inner(3) + ring_high_outer_base("Mars") + MIN_GAP_MARS_JUP
                    + ring_low_outer_base("Jupiter")) + 600
        pluto == WIDTH - RIGHT_MARGIN - radius_base["Pluto"]
        dist_jp_pl == pluto - jupiter
        neptune == PyRoundPlus(jupiter, RatMul(<<88, 100>>, Rat(dist_jp_pl)))
        saturn == ((jupiter + neptune) \div 2) - 100
        uranus == (saturn + neptune) \div 2
    IN  [Mercury |-> mercury, Venus |-> inner(1), Earth |-> inner(2),
         Mars |-> inner(3), Jupiter |-> jupiter, Saturn |-> saturn,
         Uranus |-> uranus, Neptune |-> neptune, Pluto |-> pluto]
ApplyMoves(cxb) ==
    [cxb EXCEPT !["Mercury"] = @ + SHIFT_MERCURY,
                !["Jupiter"] = @ + SHIFT_JUPITER]
centre_y(p) == HEIGHT \div 2

(***************************************************************************)
(* UPDATED RADII (lines 94-96)                                             *)
(***************************************************************************)
\* a variant that triples every planet
TripleRocky_All(rb, p) == rb[p] * 3
TripleRocky(rb, p) == IF p \in ROCKY THEN rb[p] * 3 ELSE rb[p]

(***************************************************************************)
(* CANVAS (lines 105-122, 161-171).  W and H are the globals WIDTH and     *)
(* HEIGHT the primitives clamp against.  A pixel array is a function on    *)
(* <<y, x>>.                                                               *)
(***************************************************************************)
Pixels(W, H) == (0 .. H - 1) \X (0 .. W - 1)
Blank(W, H) == [p \in Pixels(W, H) |-> 0]

\* np.arange(a, b): the integers a .. b-1, as a sequence
Arange(a, b) == [k \in 1 .. Max(0, b - a) |-> a + k - 1]
\* the indices selected by the basic slice [a:b] of an axis of length n:
\* a negative bound counts from the end, and bounds are clipped to 0 .. n
SliceBound(i, n) == IF i < 0 THEN Max(i + n, 0) ELSE Min(i, n)
SliceIdx(a, b, n) == Arange(SliceBound(a, n), SliceBound(b, n))

\* x0, x1, y0, y1 of draw_circle and draw_annulus (lines 108-109, 116-117)
ClipBox(W, H, cx, cy, r) ==
    [x0 |-> Max(0, cx - r), x1 |-> Min(W - 1, cx + r),
     y0 |-> Max(0, cy - r), y1 |-> Min(H - 1, cy + r)]

\* canvas[y0:y1+1, x0:x1+1][mask] = val (lines 113, 122), for a boolean
\* array mask of shape ny x nx.  numpy raises IndexError when the mask's
\* shape differs from the shape of the sliced view; otherwise the view's
\* element [i, j] is written where mask[i, j] holds.
MaskedAssign(W, H, c, b, ny, nx, mask, val) ==
    LET rows == SliceIdx(b.y0, b.y1 + 1, H)
        cols == SliceIdx(b.x0, b.x1 + 1, W)
    IN  IF Len(rows) # ny \/ Len(cols) # nx
        THEN [canvas |-> c, raised |-> TRUE]
        ELSE [canvas |->
                [p \in Pixels(W, H) |->
                    IF \E i \in 1 .. ny, j \in 1 .. nx :
                          p = <<rows[i], cols[j]>> /\ mask[i, j]
                    THEN val ELSE c[p]],
              raised |-> FALSE]

CircleMask(cx, cy, r, x, y) ==
    (x - cx) * (x - cx) + (y - cy) * (y - cy) <= r * r
draw_circle(W, H, c, cx, cy, r, val) ==
    LET b == ClipBox(W, H, cx, cy, r)
        y == Arange(b.y0, b.y1 + 1)
        x == Arange(b.x0, b.x1 + 1)
        mask == [i \in 1 .. Len(y), j \in 1 .. Len(x) |->
                    CircleMask(cx, cy, r, x[j], y[i])]
    IN  MaskedAssign(W, H, c, b, Len(y), Len(x), mask, val)

\* a variant that excludes the inner edge
AnnulusMask_OpenInner(cx, cy, r_in, r_out, x, y) ==
    LET d2 == (x - cx) * (x - cx) + (y - cy) * (y - cy)
    IN  d2 <= r_out * r_out /\ d2 > r_in * r_in
AnnulusMask(cx, cy, r_in, r_out, x, y) ==
    LET d2 == (x - cx) * (x - cx) + (y - cy) * (y - cy)
    IN  d2 <= r_out * r_out /\ d2 >= r_in * r_in
draw_annulus(W, H, c, cx, cy, r_in, r_out, val) ==
    LET b == ClipBox(W, H, cx, cy, r_out)
        y == Arange(b.y0, b.y1 + 1)
        x == Arange(b.x0, b.x1 + 1)
        mask == [i \in 1 .. Len(y), j \in 1 .. Len(x) |->
                    AnnulusMask(cx, cy, r_in, r_out, x[j], y[i])]
    IN  MaskedAssign(W, H, c, b, Len(y), Len(x), mask, val)

\* A texture patch: [side |-> 2r+1, px |-> values on <<row, col>>] (line 144)
\* a variant that copies the whole patch, zeros included
PasteWrites_All(v) == v >= 0
\* line 170: mask = sub_disc > 0
PasteWrites(v) == v > 0
paste_disc(W, H, c, cx, cy, disc) ==
    LET r == (disc.side - 1) \div 2
        y0 == cy - r
        y1 == cy + r + 1
        x0 == cx - r
        x1 == cx + r + 1
        sy0 == Max(0, -y0)
        sx0 == Max(0, -x0)
        sy1 == disc.side - Max(0, y1 - H)
        sx1 == disc.side - Max(0, x1 - W)
        srows == SliceIdx(sy0, sy1, disc.side)
        scols == SliceIdx(sx0, sx1, disc.side)
        rows == SliceIdx(Max(y0, 0), Min(y1, H), H)
        cols == SliceIdx(Max(x0, 0), Min(x1, W), W)
    IN  IF Len(rows) # Len(srows) \/ Len(cols) # Len(scols)
        THEN [canvas |-> c, raised |-> TRUE]
        ELSE [canvas |->
                [p \in Pixels(W, H) |->
                    IF \E i \in 1 .. Len(rows), j \in 1 .. Len(cols) :
                          /\ p = <<rows[i], cols[j]>>
                          /\ PasteWrites(disc.px[<<srows[i], scols[j]>>])
                    THEN LET ij == CHOOSE ij \in (1 .. Len(rows)) \X (1 .. Len(cols)) :
                                      p = <<rows[ij[1]], cols[ij[2]]>>
                         IN  disc.px[<<srows[ij[1]], scols[ij[2]]>>]
                    ELSE c[p]],
              raised |-> FALSE]

(***************************************************************************)
(* The run's canvas: paint calls in the order issued.  A call raises       *)
(* exactly when the primitive raises on the WIDTH x HEIGHT canvas, which   *)
(* depends on the clipped box only.                                        *)
(***************************************************************************)
Circle(cx, cy, r, val) ==
    [op |-> "draw_circle", cx |-> cx, cy |-> cy, r_in |-> 0, r_out |-> r,
     val |-> val]
Annulus(cx, cy, r_in, r_out, val) ==
    [op |-> "draw_annulus", cx |-> cx, cy |-> cy, r_in |-> r_in,
     r_out |-> r_out, val |-> val]
\* a texture disc of radius r pasted at (cx, cy); its values come from the asset
Paste(cx, cy, r) ==
    [op |-> "paste_disc", cx |-> cx, cy |-> cy, r_in |-> 0, r_out |-> r,
     val |-> 0]

SliceLen(a, b, n) == Max(0, SliceBound(b, n) - SliceBound(a, n))
BoxRaises(W, H, b) ==
    \/ SliceLen(b.y0, b.y1 + 1, H) # Max(0, b.y1 + 1 - b.y0)
    \/ SliceLen(b.x0, b.x1 + 1, W) # Max(0, b.x1 + 1 - b.x0)
PasteRaises(W, H, cx, cy, r) ==
    LET side == 2 * r + 1
        y0 == cy - r
        y1 == cy + r + 1
        x0 == cx - r
        x1 == cx + r + 1
    IN  \/ SliceLen(Max(y0, 0), Min(y1, H), H)
             # SliceLen(Max(0, -y0), side - Max(0, y1 - H), side)
        \/ SliceLen(Max(x0, 0), Min(x1, W), W)
             # SliceLen(Max(0, -x0), side - Max(0, x1 - W), side)
CallRaises(c) ==
    IF c.op = "paste_disc" THEN PasteRaises(WIDTH, HEIGHT, c.cx, c.cy, c.r_out)
    ELSE BoxRaises(WIDTH, HEIGHT, ClipBox(WIDTH, HEIGHT, c.cx, c.cy, c.r_out))

\* the calls of a phase that complete: all of them, or those before the
\* first one that raises
RECURSIVE Completed(_)
Completed(calls) ==
    IF calls = <<>> \/ CallRaises(Head(calls)) THEN <<>>
    ELSE <<Head(calls)>> \o Completed(Tail(calls))
AnyRaises(calls) == \E i \in 1 .. Len(calls) : CallRaises(calls[i])
PaintErr(calls) == IF AnyRaises(calls) THEN "IndexError" ELSE "none"

(***************************************************************************)
(* rings and bodies (lines 125-136)                                        *)
(***************************************************************************)
RingCalls(p) ==
    IF p = SATURN THEN <<>>
    ELSE LET low_in == radius_px[p] + LOW_OFF
             hi_in == ring_high_inner(p)
         IN  <<Annulus(centre_x[p], centre_y(p), low_in, low_in + LOW_THICK,
                       GRAY_ORBIT_RING),
               Annulus(centre_x[p], centre_y(p), hi_in, hi_in + HIGH_THICK,
                       GRAY_ORBIT_RING)>>
sat_in == radius_px["Saturn"] + 10
sat_out == PyRound(<<radius_px["Saturn"] * 3, 2>>)
RECURSIVE Concat(_)
Concat(ss) == IF ss = <<>> THEN <<>> ELSE Head(ss) \o Concat(Tail(ss))
AllRingCalls ==
    Concat([i \in 1 .. Len(PlanetOrder) |-> RingCalls(PlanetOrder[i])])
      \o <<Annulus(centre_x["Saturn"], centre_y("Saturn"), sat_in, sat_out,
                   GRAY_SAT_RING)>>
AllBodyCalls ==
    [i \in 1 .. Len(PlanetOrder) |->
        Circle(centre_x[PlanetOrder[i]], centre_y(PlanetOrder[i]),
               radius_px[PlanetOrder[i]], GRAY_PLANET)]

(***************************************************************************)
(* moons (lines 179-186, 199-223).  r_km is a rational: Phobos and Deimos  *)
(* have fractional radii.                                                  *)
(***************************************************************************)
MoonRadius(r_km) == Max(PyRound(RatMul(r_km, scale)), 2) * 3
moon_radius_px == MoonRadius(Rat(1737))

TextureCalls ==
    LET base_outer_earth == ring_high_outer("Earth")
        moon_offset == base_outer_earth + 60 + base_outer_earth
    IN  <<Paste(centre_x["Mars"], centre_y("Mars"), radius_px["Mars"]),
          Paste(centre_x["Earth"], centre_y("Earth") - moon_offset,
                moon_radius_px),
          Paste(centre_x["Mercury"], centre_y("Mercury"), radius_px["Mercury"]),
          Paste(centre_x["Venus"], centre_y("Venus"), radius_px["Venus"]),
          Paste(centre_x["Pluto"], centre_y("Pluto"), radius_px["Pluto"])>>

Moon(name, r_km, a_km) == [name |-> name, r_km |-> r_km, a_km |-> a_km]
MOON_DATA ==
    [Earth |-> <<Moon("Moon", Rat(1737), 384400)>>,
     Mars |-> <<Moon("Phobos", <<1127, 100>>, 9377),
                Moon("Deimos", <<62, 10>>, 23460)>>,
     Jupiter |-> <<Moon("Io", Rat(1821), 421700),
                   Moon("Europa", Rat(1560), 671034),
                   Moon("Ganymede", Rat(2634), 1070412),
                   Moon("Callisto", Rat(2410), 1882709)>>,
     Saturn |-> <<Moon("Titan", Rat(2575), 1221870),
                  Moon("Rhea", Rat(764), 527108),
                  Moon("Iapetus", Rat(735), 3560820),
                  Moon("Dione", Rat(561), 377415)>>,
     Uranus |-> <<Moon("Miranda", Rat(235), 129900),
                  Moon("Ariel", Rat(578), 191020),
                  Moon("Umbriel", Rat(584), 266000),
                  Moon("Titania", Rat(788), 435910),
                  Moon("Oberon", Rat(761), 583520)>>,
     Neptune |-> <<Moon("Triton", Rat(1353), 354759),
                   Moon("Proteus", Rat(210), 117647)>>,
     Pluto |-> <<Moon("Charon", Rat(606), 19591)>>]
\* iteration order of the dict MOON_DATA
MoonPlanets ==
    <<"Earth", "Mars", "Jupiter", "Saturn", "Uranus", "Neptune", "Pluto">>

\* sorted(moons, key=lambda x: x[2]): a stable insertion sort
RECURSIVE Insert(_, _)
Insert(m, sorted) ==
    IF sorted = <<>> THEN <<m>>
    ELSE IF m.a_km < Head(sorted).a_km THEN <<m>> \o sorted
    ELSE <<Head(sorted)>> \o Insert(m, Tail(sorted))
RECURSIVE SortedByA(_)
SortedByA(moons) ==
    IF moons = <<>> THEN <<>>
    ELSE Insert(moons[Len(moons)], SortedByA(SubSeq(moons, 1, Len(moons) - 1)))
MaxA(moons) ==
    CHOOSE a \in {moons[i].a_km : i \in 1 .. Len(moons)} :
        \A i \in 1 .. Len(moons) : moons[i].a_km <= a

\* the (planet, idx) pairs in the order the nested loops visit them;
\* idx is the 0-based enumerate index
MoonJobs ==
    Concat([k \in 1 .. Len(MoonPlanets) |->
        [j \in 1 .. Len(MOON_DATA[MoonPlanets[k]]) |->
            [planet |-> MoonPlanets[k], idx |-> j - 1]]])

base_outer(planet) ==
    IF planet = "Saturn" THEN sat_out ELSE ring_high_outer(planet)
\* a variant without the fixed pad of 60
MoonOffset_NoPad(bo, a_km, max_a) ==
    PyRoundPlus(bo, RatMul(RatNorm(<<a_km, max_a>>), Rat(bo)))
\* int(round(offset)) of lines 217-218
MoonOffset(bo, a_km, max_a) ==
    PyRoundPlus(bo + 60, RatMul(RatNorm(<<a_km, max_a>>), Rat(bo)))
PlacedMoon(job) ==
    LET moons == MOON_DATA[job.planet]
        m == SortedByA(moons)[job.idx + 1]
        bo == base_outer(job.planet)
        off == MoonOffset(bo, m.a_km, MaxA(moons))
    IN  [planet |-> job.planet, name |-> m.name, idx |-> job.idx,
         a_km |-> m.a_km, mr |-> MoonRadius(m.r_km), base_outer |-> bo,
         offset |-> off,
         mx |-> centre_x[job.planet],
         my |-> centre_y(job.planet)
                  + (IF job.idx % 2 = 0 THEN -1 ELSE 1) * off]
MoonCalls(pm) ==
    LET r_in == pm.mr + MOON_RING_OFF
    IN  (IF pm.planet = "Earth" /\ pm.name = "Moon" THEN <<>>
         ELSE <<Circle(pm.mx, pm.my, pm.mr, GRAY_PLANET)>>)
        \o <<Annulus(pm.mx, pm.my, r_in, r_in + MOON_RING_THICK,
                     GRAY_ORBIT_RING)>>

(***************************************************************************)
(* Asteroid belt (lines 227-277)                                           *)
(***************************************************************************)
BeltLeft(left_shift) ==
    Max(0, centre_x_base["Mars"] + ring_high_outer_base("Mars") + 250
             + left_shift)
BeltRight(right_shift) ==
    Min(WIDTH - 1, centre_x_base["Jupiter"] - ring_low_outer_base("Jupiter")
                     - 250 + right_shift)

dwarf_defs ==
    <<[name |-> "Ceres", r_km |-> 473], [name |-> "Vesta", r_km |-> 262],
      [name |-> "Pallas", r_km |-> 272], [name |-> "Hygiea", r_km |-> 215]>>
DWARF_MIN_R == 30
core_r_of(r_km) == Max(PyRound(RatMul(Rat(r_km), scale)), DWARF_MIN_R)
\* the loop bound of line 246; the script's value is 8000
MaxTries == 3
TARGET == 200

\* random.randint(a, b) raises ValueError when a > b; otherwise the model
\* draws from the sample points below that lie in a .. b
XOffsets == {0, 90}
YSamples == {0, 75, 150, 250}
RSamples == {8, 15}
XSamples == {x \in {belt_left + o : o \in XOffsets} :
                belt_left <= x /\ x <= belt_right}

Dist2(ax, ay, bx, by) == (ax - bx) * (ax - bx) + (ay - by) * (ay - by)
\* a variant that leaves the candidate's own ring out of the test
DwarfHits_NoOwnRing(ax, ay, core_r, e) ==
    Dist2(ax, ay, e[1], e[2]) < (core_r + e[3] + 2) * (core_r + e[3] + 2)
\* line 250-252: e = <<ex, ey, eR>>
DwarfHits(ax, ay, core_r, e) ==
    Dist2(ax, ay, e[1], e[2])
      < (core_r + MOON_RING_OFF + MOON_RING_THICK + e[3] + 2)
          * (core_r + MOON_RING_OFF + MOON_RING_THICK + e[3] + 2)
DwarfOk(ax, ay, core_r) ==
    \A i \in 1 .. Len(dwarf_ring_extents) :
        ~DwarfHits(ax, ay, core_r, dwarf_ring_extents[i])
\* line 268-270: a = <<ax2, ay2, ar2>>
FillerHits(ax, ay, r, a) ==
    Dist2(ax, ay, a[1], a[2]) < (r + a[3] + 2) * (r + a[3] + 2)
FillerOk(ax, ay, r) ==
    \A i \in 1 .. Len(asteroids) : ~FillerHits(ax, ay, r, asteroids[i])
\* a variant whose attempt bound is off by one
DwarfLoopTest_OffByOne(pl, tr) == ~pl /\ tr <= MaxTries
\* the while test of line 246
DwarfLoopTest(pl, tr) == ~pl /\ tr < MaxTries

(***************************************************************************)
(* The run                                                                 *)
(***************************************************************************)
\* the configured pair of line 40-41, a band of width 0, an inverted band,
\* a band left of the canvas and a band that reaches its right edge
ShiftPairs ==
    {<<300, 800>>, <<1200, 0>>, <<1500, 0>>, <<-6000, -7000>>, <<10000, 12000>>}
NoCall ==
    [op |-> "none", cx |-> 0, cy |-> 0, r_in |-> 0, r_out |-> 0, val |-> 0,
     disc |-> [side |-> 0, px |-> <<>>]]

RunInit(ls, rs) ==
    /\ pc = "radii"
    /\ err = "none"
    /\ BELT_LEFT_SHIFT = ls
    /\ BELT_RIGHT_SHIFT = rs
    /\ radius_base = <<>>
    /\ centre_x_base = <<>>
    /\ centre_x = <<>>
    /\ radius_px = <<>>
    /\ moons_done = <<>>
    /\ belt_left = 0
    /\ belt_right = 0
    /\ asteroids = <<>>
    /\ dwarf_ring_extents = <<>>
    /\ di = 0
    /\ placed = FALSE
    /\ tries = 0
    /\ drawn = <<>>
    /\ saves = 0

ComputeRadii ==
    /\ pc = "radii" /\ err = "none"
    /\ radius_base' = [p \in Planets |-> radius_base_of(p)]
    /\ pc' = "positions"
    /\ UNCHANGED <<err, BELT_LEFT_SHIFT, BELT_RIGHT_SHIFT, centre_x_base,
                   centre_x, radius_px, moons_done, belt_left, belt_right,
                   asteroids, dwarf_ring_extents, di, placed, tries, drawn,
                   saves, rasterVars>>

ComputePositions ==
    /\ pc = "positions" /\ err = "none"
    /\ centre_x_base' = PositionsBase
    /\ centre_x' = ApplyMoves(PositionsBase)
    /\ pc' = "update_radii"
    /\ UNCHANGED <<err, BELT_LEFT_SHIFT, BELT_RIGHT_SHIFT, radius_base,
                   radius_px, moons_done, belt_left, belt_right, asteroids,
                   dwarf_ring_extents, di, placed, tries, drawn, saves,
                   rasterVars>>

UpdateRadii ==
    /\ pc = "update_radii" /\ err = "none"
    /\ radius_px' = [p \in Planets |-> TripleRocky(radius_base, p)]
    /\ pc' = "rings"
    /\ UNCHANGED <<err, BELT_LEFT_SHIFT, BELT_RIGHT_SHIFT, radius_base,
                   centre_x_base, centre_x, moons_done, belt_left, belt_right,
                   asteroids, dwarf_ring_extents, di, placed, tries, drawn,
                   saves, rasterVars>>

\* issue a phase's paint calls and move to `next`, or stop at the first
\* call that raises
PaintPhase(calls, next) ==
    /\ drawn' = drawn \o Completed(calls)
    /\ err' = PaintErr(calls)
    /\ pc' = IF AnyRaises(calls) THEN pc ELSE next
    /\ UNCHANGED <<BELT_LEFT_SHIFT, BELT_RIGHT_SHIFT, radius_base,
                   centre_x_base, centre_x, radius_px, belt_left, belt_right,
                   asteroids, dwarf_ring_extents, di, placed, tries, saves,
                   rasterVars>>

DrawRings ==
    /\ pc = "rings" /\ err = "none"
    /\ PaintPhase(AllRingCalls, "bodies")
    /\ UNCHANGED moons_done

DrawBodies ==
    /\ pc = "bodies" /\ err = "none"
    /\ PaintPhase(AllBodyCalls, "textures")
    /\ UNCHANGED moons_done

ApplyTextures ==
    /\ pc = "textures" /\ err = "none"
    /\ PaintPhase(TextureCalls, "moons")
    /\ UNCHANGED moons_done

\* one iteration of the inner loop of line 215-223
PlaceMoon ==
    /\ pc = "moons" /\ err = "none"
    /\ Len(moons_done) < Len(MoonJobs)
    /\ LET pm == PlacedMoon(MoonJobs[Len(moons_done) + 1])
       IN  /\ moons_done' = Append(moons_done, pm)
           /\ PaintPhase(MoonCalls(pm),
                         IF Len(moons_done) + 1 = Len(MoonJobs)
                         THEN "belt" ELSE "moons")

BeltBounds ==
    /\ pc = "belt" /\ err = "none"
    /\ belt_left' = BeltLeft(BELT_LEFT_SHIFT)
    /\ belt_right' = BeltRight(BELT_RIGHT_SHIFT)
    /\ pc' = "dwarf_for"
    /\ UNCHANGED <<err, BELT_LEFT_SHIFT, BELT_RIGHT_SHIFT, radius_base,
                   centre_x_base, centre_x, radius_px, moons_done, asteroids,
                   dwarf_ring_extents, di, placed, tries, drawn, saves,
                   rasterVars>>

\* the head of the for loop of line 242: the next dwarf body, or on to
\* the filler loop
DwarfNext ==
    /\ pc = "dwarf_for" /\ err = "none"
    /\ IF di < Len(dwarf_defs)
       THEN /\ di' = di + 1
            /\ placed' = FALSE
            /\ tries' = 0
            /\ pc' = "dwarf_while"
       ELSE /\ pc' = "fillers"
            /\ UNCHANGED <<di, placed, tries>>
    /\ UNCHANGED <<err, BELT_LEFT_SHIFT, BELT_RIGHT_SHIFT, radius_base,
                   centre_x_base, centre_x, radius_px, moons_done, belt_left,
                   belt_right, asteroids, dwarf_ring_extents, drawn, saves,
                   rasterVars>>

\* one iteration of the while loop of line 246-260
DwarfTry ==
    /\ pc = "dwarf_while" /\ err = "none"
    /\ DwarfLoopTest(placed, tries)
    /\ IF belt_left > belt_right
       THEN /\ err' = "ValueError"
            /\ UNCHANGED <<pc, asteroids, dwarf_ring_extents, placed, tries,
                           drawn>>
       ELSE \E ax \in XSamples, ay \in YSamples :
              LET core_r == core_r_of(dwarf_defs[di].r_km)
                  r_in == core_r + MOON_RING_OFF
                  calls == <<Circle(ax, ay, core_r, GRAY_ASTEROID),
                             Annulus(ax, ay, r_in, r_in + MOON_RING_THICK,
                                     GRAY_ORBIT_RING)>>
              IN  IF ~DwarfOk(ax, ay, core_r)
                  THEN /\ tries' = tries + 1
                       /\ UNCHANGED <<pc, err, asteroids, dwarf_ring_extents,
                                      placed, drawn>>
                  ELSE IF AnyRaises(calls)
                  THEN /\ err' = "IndexError"
                       /\ drawn' = drawn \o Completed(calls)
                       /\ UNCHANGED <<pc, asteroids, dwarf_ring_extents,
                                      placed, tries>>
                  ELSE /\ drawn' = drawn \o calls
                       /\ dwarf_ring_extents' =
                            Append(dwarf_ring_extents,
                                   <<ax, ay, r_in + MOON_RING_THICK>>)
                       /\ asteroids' = Append(asteroids, <<ax, ay, core_r>>)
                       /\ placed' = TRUE
                       /\ tries' = tries + 1
                       /\ UNCHANGED <<pc, err>>
    /\ UNCHANGED <<BELT_LEFT_SHIFT, BELT_RIGHT_SHIFT, radius_base,
                   centre_x_base, centre_x, radius_px, moons_done, belt_left,
                   belt_right, di, saves, rasterVars>>

\* the while test of line 246 fails: back to the for loop
DwarfExit ==
    /\ pc = "dwarf_while" /\ err = "none"
    /\ ~DwarfLoopTest(placed, tries)
    /\ pc' = "dwarf_for"
    /\ UNCHANGED <<err, BELT_LEFT_SHIFT, BELT_RIGHT_SHIFT, radius_base,
                   centre_x_base, centre_x, radius_px, moons_done, belt_left,
                   belt_right, asteroids, dwarf_ring_extents, di, placed,
                   tries, drawn, saves, rasterVars>>

\* The rest of the script (lines 263-282): one iteration of the filler
\* loop while fewer than TARGET asteroids are placed, then the save.
\* Line 273 reads the name y, which is bound nowhere at module level
\* (y is a local of draw_circle and draw_annulus): evaluating it raises
\* NameError.  It is evaluated when the candidate passed the check against
\* `asteroids` and dwarf_ring_extents is not empty.
FillerStep ==
    /\ pc = "fillers" /\ err = "none"
    /\ IF Len(asteroids) < TARGET
       THEN IF belt_left > belt_right
            THEN /\ err' = "ValueError"
                 /\ UNCHANGED <<pc, asteroids, drawn, saves>>
            ELSE \E r \in RSamples, ax \in XSamples, ay \in YSamples :
                   IF ~FillerOk(ax, ay, r)
                   THEN UNCHANGED <<pc, err, asteroids, drawn, saves>>
                   ELSE IF dwarf_ring_extents # <<>>
                   THEN /\ err' = "NameError"
                        /\ UNCHANGED <<pc, asteroids, drawn, saves>>
                   ELSE /\ asteroids' = Append(asteroids, <<ax, ay, r>>)
                        /\ drawn' = drawn
                             \o Completed(<<Circle(ax, ay, r, GRAY_ASTEROID)>>)
                        /\ err' = PaintErr(<<Circle(ax, ay, r, GRAY_ASTEROID)>>)
                        /\ UNCHANGED <<pc, saves>>
       ELSE /\ saves' = saves + 1
            /\ pc' = "done"
            /\ UNCHANGED <<err, asteroids, drawn>>
    /\ UNCHANGED <<BELT_LEFT_SHIFT, BELT_RIGHT_SHIFT, radius_base,
                   centre_x_base, centre_x, radius_px, moons_done, belt_left,
                   belt_right, dwarf_ring_extents, di, placed, tries,
                   rasterVars>>

(***************************************************************************)
(* The primitives on a small canvas                                        *)
(***************************************************************************)
CanvasW == 4
CanvasH == 3
\* centres: off each side of the canvas, just off it, near its edges, inside
XCentres == {-CanvasW - 1, -3, -1, 1, CanvasW - 1, CanvasW + 1}
YCentres == {-3, -1, 1, CanvasH - 1, CanvasH + 2}
Radii == {0, 1, 2}
TEX == 65535
\* patches of radius 1 as map_texture_to_disc builds them (lines 143-159):
\* zero outside the disc, the texture's value inside, which is zero where
\* the texture is black
DiscOf(dark) ==
    [side |-> 3,
     px |-> [q \in (0 .. 2) \X (0 .. 2) |->
               IF (q[1] - 1) * (q[1] - 1) + (q[2] - 1) * (q[2] - 1) > 1
                  \/ q \in dark
               THEN 0 ELSE TEX]]
Discs == {DiscOf({}), DiscOf({<<1, 1>>}), DiscOf({<<0, 1>>, <<1, 0>>})}

RasterInit ==
    /\ canvas = Blank(CanvasW, CanvasH)
    /\ prev = Blank(CanvasW, CanvasH)
    /\ call = NoCall
    /\ raised = FALSE
    /\ stage = "earlier"

NextStage == IF stage = "earlier" THEN "call" ELSE "after"
Apply(c, res) ==
    /\ prev' = canvas
    /\ call' = c
    /\ canvas' = res.canvas
    /\ raised' = res.raised
    /\ stage' = NextStage
    /\ UNCHANGED runVars

DoCircle ==
    /\ stage # "after"
    /\ \E cx \in XCentres, cy \in YCentres, r \in Radii,
          val \in {GRAY_PLANET} :
         Apply([NoCall EXCEPT !.op = "draw_circle", !.cx = cx, !.cy = cy,
                              !.r_out = r, !.val = val],
               draw_circle(CanvasW, CanvasH, canvas, cx, cy, r, val))

DoAnnulus ==
    /\ stage # "after"
    /\ \E cx \in XCentres, cy \in YCentres, r_in \in Radii, r_out \in Radii,
          val \in {GRAY_ORBIT_RING} :
         /\ r_in <= r_out
         /\ Apply([NoCall EXCEPT !.op = "draw_annulus", !.cx = cx, !.cy = cy,
                                 !.r_in = r_in, !.r_out = r_out, !.val = val],
                  draw_annulus(CanvasW, CanvasH, canvas, cx, cy, r_in, r_out,
                               val))

DoPaste ==
    /\ stage # "after"
    /\ \E cx \in XCentres, cy \in YCentres, disc \in Discs :
         Apply([NoCall EXCEPT !.op = "paste_disc", !.cx = cx, !.cy = cy,
                              !.r_out = 1, !.disc = disc],
               paste_disc(CanvasW, CanvasH, canvas, cx, cy, disc))

(***************************************************************************)
(* Specifications                                                          *)
(***************************************************************************)
Init ==
    /\ \E sp \in ShiftPairs : RunInit(sp[1], sp[2])
    /\ RasterInit
Next ==
    \/ ComputeRadii
    \/ ComputePositions
    \/ UpdateRadii
    \/ DrawRings
    \/ DrawBodies
    \/ ApplyTextures
    \/ PlaceMoon
    \/ BeltBounds
    \/ DwarfNext
    \/ DwarfTry
    \/ DwarfExit
    \/ FillerStep
Spec == Init /\ [][Next]_vars

InitRaster ==
    /\ RunInit(300, 800)
    /\ RasterInit
NextRaster ==
    \/ DoCircle
    \/ DoAnnulus
    \/ DoPaste
SpecRaster == InitRaster /\ [][NextRaster]_vars

(***************************************************************************)
(* Properties                                                              *)
(***************************************************************************)
BeltPhases == {"dwarf_for", "dwarf_while", "fillers", "done"}
Configured == BELT_LEFT_SHIFT = 300 /\ BELT_RIGHT_SHIFT = 800

\* the radius an asteroid occupies: a dwarf's ring outer radius
\* (core_r + MOON_RING_OFF + MOON_RING_THICK), a filler's drawn radius.
\* The dwarfs are the first Len(dwarf_ring_extents) entries of asteroids.
Footprint(i) ==
    IF i <= Len(dwarf_ring_extents)
    THEN asteroids[i][3] + MOON_RING_OFF + MOON_RING_THICK
    ELSE asteroids[i][3]

\* C1: at every point of the belt phase, any two distinct asteroids placed
\* so far are at least the sum of their (ring-inflated, for dwarfs) radii
\* apart.
C1_BeltNonOverlap ==
    \A i \in 1 .. Len(asteroids), j \in 1 .. Len(asteroids) :
        i < j =>
          Dist2(asteroids[i][1], asteroids[i][2],
                asteroids[j][1], asteroids[j][2])
            >= (Footprint(i) + Footprint(j)) * (Footprint(i) + Footprint(j))
\* all four dwarf bodies placed and the filler loop under way
C1_Witness ==
    /\ pc = "fillers"
    /\ Len(asteroids) = 4
    /\ Len(dwarf_ring_extents) = 4

\* C2: with the configured belt band the run completes: no exception ends
\* it, the asteroid count never exceeds 200, and the raster is written
\* exactly once, only when the count is exactly 200.
C2_RunCompletes ==
    Configured =>
      /\ err = "none"
      /\ Len(asteroids) <= TARGET
      /\ saves = (IF pc = "done" THEN 1 ELSE 0)
      /\ (pc = "done" => Len(asteroids) = TARGET)

\* C3: evaluating a filler candidate ends in accept or reject, never in an
\* error.
C3_FillerAcceptOrReject ==
    pc = "fillers" => err = "none"

ZeroWidth == pc \in BeltPhases /\ belt_left = belt_right

C5_BoundsClamped ==
    pc \in BeltPhases =>
      /\ 0 <= belt_left
      /\ belt_left <= belt_right
      /\ belt_right <= WIDTH - 1
      /\ err # "ValueError"

BoxOutside(W, H, cx, cy, r) ==
    \/ cx + r < 0
    \/ cx - r > W - 1
    \/ cy + r < 0
    \/ cy - r > H - 1

\* C6: draw_circle whose bounding box lies entirely outside the canvas, on
\* any side, does not raise and leaves every pixel unchanged.
C6_OffCanvasCircleNoOp ==
    (call.op = "draw_circle"
       /\ BoxOutside(CanvasW, CanvasH, call.cx, call.cy, call.r_out)) =>
      /\ ~raised
      /\ canvas = prev

\* C7: draw_annulus sets to val exactly the canvas pixels at squared
\* distance between r_in^2 and r_out^2 from the centre and leaves every
\* other pixel at its previous value.
C7_AnnulusExact ==
    call.op = "draw_annulus" =>
      \A p \in Pixels(CanvasW, CanvasH) :
        LET d2 == Dist2(p[2], p[1], call.cx, call.cy)
        IN  canvas[p] =
              IF call.r_in * call.r_in <= d2 /\ d2 <= call.r_out * call.r_out
              THEN call.val ELSE prev[p]
\* an annulus partly off the canvas, over an earlier paint: it painted a
\* pixel, on its inner edge too, and a pixel painted earlier shows through
C7_Witness ==
    /\ call.op = "draw_annulus"
    /\ ~raised
    /\ call.r_in >= 1
    /\ (call.cx - call.r_out < 0 \/ call.cy + call.r_out > CanvasH - 1)
    /\ \E p \in Pixels(CanvasW, CanvasH) :
         /\ Dist2(p[2], p[1], call.cx, call.cy) = call.r_in * call.r_in
         /\ canvas[p] = call.val
         /\ prev[p] # call.val
    /\ \E q \in Pixels(CanvasW, CanvasH) :
         canvas[q] = GRAY_PLANET

\* the patch value lying over canvas pixel p, 0 where the patch does not
\* reach
PatchOver(p) ==
    LET r == (call.disc.side - 1) \div 2
        q == <<p[1] - (call.cy - r), p[2] - (call.cx - r)>>
    IN  IF q \in DOMAIN call.disc.px THEN call.disc.px[q] ELSE 0

\* C10: paste_disc changes a canvas pixel only where the patch pixel over
\* it is non-zero, and sets it to the patch value there; every other pixel
\* keeps its earlier value.
C10_PasteNonZeroOnly ==
    call.op = "paste_disc" =>
      \A p \in Pixels(CanvasW, CanvasH) :
        canvas[p] = IF PatchOver(p) > 0 THEN PatchOver(p) ELSE prev[p]
\* a patch pasted over an earlier paint: a zero patch pixel inside the
\* patch's footprint left the earlier paint in place, a non-zero one
\* replaced it
C10_Witness ==
    /\ call.op = "paste_disc"
    /\ ~raised
    /\ \E p \in Pixels(CanvasW, CanvasH) :
         /\ Abs(p[1] - call.cy) + Abs(p[2] - call.cx) <= 1
         /\ PatchOver(p) = 0
         /\ prev[p] = GRAY_PLANET
         /\ canvas[p] = GRAY_PLANET
    /\ \E q \in Pixels(CanvasW, CanvasH) :
         /\ prev[q] = GRAY_PLANET
         /\ canvas[q] = TEX

\* the integer nearest to km * EARTH_PX / 6371, for km = q[1] / q[2]
\* (no body's scaled radius lies half-way between two integers)
Nearest(q) ==
    CHOOSE n \in 0 .. 2000 :
      /\ (2 * n - 1) * PLANET_KM["Earth"] * q[2] < 2 * EARTH_PX * q[1]
      /\ 2 * EARTH_PX * q[1] < (2 * n + 1) * PLANET_KM["Earth"] * q[2]
MoonKm(planet, name) ==
    LET ms == MOON_DATA[planet]
    IN  ms[CHOOSE i \in 1 .. Len(ms) : ms[i].name = name].r_km

\* C8: every planet and moon has a final radius > 0; Mercury, Venus,
\* Earth, Mars, Pluto and every moon have exactly 3 times their
\* pre-override radius (for a moon the scaled radius, rounded, at least
\* 2); gas giants keep their base radius; Mercury is 57 and then 171.
C8_Radii ==
    /\ pc \notin {"radii", "positions", "update_radii"} =>
         /\ \A p \in Planets :
              /\ radius_px[p] > 0
              /\ p \in {"Mercury", "Venus", "Earth", "Mars", "Pluto"} =>
                   radius_px[p] = 3 * radius_base[p]
              /\ p \in {"Jupiter", "Saturn", "Uranus", "Neptune"} =>
                   radius_px[p] = radius_base[p]
         /\ radius_base["Mercury"] = 57
         /\ radius_base["Mercury"] = Nearest(Rat(2440))
         /\ radius_px["Mercury"] = 171
    /\ \A i \in 1 .. Len(moons_done) :
         LET m == moons_done[i]
         IN  /\ m.mr > 0
             /\ m.mr = 3 * Max(Nearest(MoonKm(m.planet, m.name)), 2)
\* all radii derived: every planet and all 19 moons, Phobos at the floor
C8_Witness ==
    /\ pc = "belt"
    /\ Len(moons_done) = 19
    /\ \E i \in 1 .. Len(moons_done) :
         moons_done[i].name = "Phobos" /\ moons_done[i].mr = 6

\* the outer radius of the outermost ring drawn around a planet
OutermostRing(planet) ==
    LET rs == {drawn[k].r_out : k \in
                 {k \in 1 .. Len(drawn) :
                    /\ drawn[k].op = "draw_annulus"
                    /\ drawn[k].cx = centre_x[planet]
                    /\ drawn[k].cy = centre_y(planet)}}
    IN  CHOOSE r \in rs : \A x \in rs : x <= r

\* C9: every moon's disk lies entirely outside its parent's outermost
\* ring, and among the moons of one planet the offset from the parent's
\* centre grows strictly with the semi-major axis.
C9_MoonsOutsideAscending ==
    \A i \in 1 .. Len(moons_done) :
      LET m == moons_done[i]
      IN  /\ m.mx = centre_x[m.planet]
          /\ Abs(m.my - centre_y(m.planet)) - m.mr > OutermostRing(m.planet)
          /\ \A j \in 1 .. Len(moons_done) :
               (moons_done[j].planet = m.planet /\ m.a_km < moons_done[j].a_km)
                 => Abs(m.my - centre_y(m.planet))
                      < Abs(moons_done[j].my - centre_y(m.planet))
\* all moons placed, Jupiter's four and Saturn's four among them
C9_Witness ==
    /\ Len(moons_done) = Len(MoonJobs)
    /\ Cardinality({i \in 1 .. Len(moons_done) :
                      moons_done[i].planet = "Saturn"}) = 4
    /\ \E i \in 1 .. Len(moons_done) :
         moons_done[i].name = "Io" /\ moons_done[i].idx = 0

====
